---- MODULE Spec2Model ----
(***************************************************************************)
(* The patient-data dashboard: pd.read_csv, HealthAnalyzer (clean_data and *)
(* the aggregators of LatimerJasmine_MentalHealthProject.py) and the       *)
(* filter step of app.py, as a state machine over a heap of tables.        *)
(*                                                                         *)
(* Numbers are fixed point, in tenths (25.5 is 255), so that int() and the *)
(* arithmetic mean are not the identity.  A CSV field is a sequence of     *)
(* characters; the numeric texts of the model carry at most one fractional *)
(* digit and the date texts are ISO YYYY-MM-DD or unparsable.              *)
(***************************************************************************)
EXTENDS Integers, Sequences, FiniteSets, TLC

VARIABLES csv, heap, df, base_analyzer, clean_df, age_range, selected_genders,
          selected_diagnoses, filtered_df, analyzer, ret, prev_ret, ncalls,
          result, passed

vars == <<csv, heap, df, base_analyzer, clean_df, age_range, selected_genders,
          selected_diagnoses, filtered_df, analyzer, ret, prev_ret, ncalls,
          result, passed>>

(***************************************************************************)
(* Bounds of the model.                                                    *)
(***************************************************************************)
MaxRows == 3

(***************************************************************************)
(* Cells.  A cell is missing (NaN / NaT / None), a text, a number (in      *)
(* tenths), a timestamp (yyyymmdd) or a row index label.                   *)
(***************************************************************************)
NA == [k |-> "na", s |-> <<>>, n |-> 0]

Txt(s) == [k |-> "text", s |-> s, n |-> 0]

Num(n) == [k |-> "num", s |-> <<>>, n |-> n]

Ts(n) == [k |-> "date", s |-> <<>>, n |-> n]

Idx(i) == [k |-> "idx", s |-> <<>>, n |-> i]

IsNA(c) == c.k = "na"

\* A whole number w in tenths.
Whole(w) == w * 10

\* Python's int() of a float: truncation toward zero.
PyInt(n) == IF n >= 0 THEN n \div 10 ELSE -((-n) \div 10)

(***************************************************************************)
(* Parsing.                                                                *)
(***************************************************************************)
DigitChars == <<"0", "1", "2", "3", "4", "5", "6", "7", "8", "9">>

IsDigit(c) == \E i \in 1..10 : DigitChars[i] = c

DigitVal(c) == (CHOOSE i \in 1..10 : DigitChars[i] = c) - 1

AllDigits(s) == Len(s) > 0 /\ \A i \in 1..Len(s) : IsDigit(s[i])

RECURSIVE DigitsVal(_)
DigitsVal(s) ==
    IF Len(s) = 0 THEN 0
    ELSE DigitsVal(SubSeq(s, 1, Len(s) - 1)) * 10 + DigitVal(s[Len(s)])

\* The unsigned part of a numeric text: digits, or digits "." digit.
IsUnsignedNumber(s) ==
    \/ AllDigits(s)
    \/ /\ Len(s) >= 3
       /\ s[Len(s) - 1] = "."
       /\ IsDigit(s[Len(s)])
       /\ AllDigits(SubSeq(s, 1, Len(s) - 2))

UnsignedVal(s) ==
    IF AllDigits(s) THEN Whole(DigitsVal(s))
    ELSE Whole(DigitsVal(SubSeq(s, 1, Len(s) - 2))) + DigitVal(s[Len(s)])

IsNumberText(s) ==
    IF Len(s) > 0 /\ s[1] = "-" THEN IsUnsignedNumber(Tail(s))
    ELSE IsUnsignedNumber(s)

NumberVal(s) == IF s[1] = "-" THEN -UnsignedVal(Tail(s)) ELSE UnsignedVal(s)

IsLeap(y) == (y % 4 = 0 /\ y % 100 # 0) \/ y % 400 = 0

DaysInMonth(y, m) ==
    IF m = 2 THEN (IF IsLeap(y) THEN 29 ELSE 28)
    ELSE IF m \in {4, 6, 9, 11} THEN 30 ELSE 31

IsIsoDate(s) ==
    /\ Len(s) = 10
    /\ s[5] = "-"
    /\ s[8] = "-"
    /\ \A i \in {1, 2, 3, 4, 6, 7, 9, 10} : IsDigit(s[i])
    /\ LET y == DigitsVal(SubSeq(s, 1, 4))
           m == DigitsVal(SubSeq(s, 6, 7))
           d == DigitsVal(SubSeq(s, 9, 10))
       IN  m \in 1..12 /\ d \in 1..DaysInMonth(y, m)

IsoDateVal(s) ==
    DigitsVal(SubSeq(s, 1, 4)) * 10000 + DigitsVal(SubSeq(s, 6, 7)) * 100
        + DigitsVal(SubSeq(s, 9, 10))

\* pd.to_numeric(errors="coerce") of one value.
ToNumeric(c) ==
    IF c.k = "num" THEN c
    ELSE IF c.k = "text" /\ IsNumberText(c.s) THEN Num(NumberVal(c.s))
    ELSE NA

\* A conversion that knows texts only: anything else becomes missing.
ToDatetimeTextOnly(c) ==
    IF c.k = "text" /\ IsIsoDate(c.s) THEN Ts(IsoDateVal(c.s)) ELSE NA

\* pd.to_datetime(errors="coerce") of one value: a number is nanoseconds
\* since the epoch, which for every number of the model is 1970-01-01.
ToDatetime(c) ==
    IF c.k = "date" THEN c
    ELSE IF c.k = "text" /\ IsIsoDate(c.s) THEN Ts(IsoDateVal(c.s))
    ELSE IF c.k = "num" THEN Ts(19700101)
    ELSE NA

\* The bucket is the day itself.
MonthStartSameDay(n) == n

\* Timestamp -> Period("M") -> Timestamp: the first day of the month.
MonthStart(n) == n - (n % 100) + 1

(***************************************************************************)
(* Tables.  A table has a set of columns, a dtype per column and a         *)
(* sequence of rows; a row keeps its index label and one cell per column.  *)
(***************************************************************************)
Columns ==
    {"Patient_ID", "Visit_Date", "Diagnosis", "Age", "Gender",
     "Treatment_Duration_Weeks", "Num_Visits", "Satisfaction_Score",
     "Severity_Level"}

numeric_cols ==
    <<"Age", "Treatment_Duration_Weeks", "Num_Visits", "Satisfaction_Score",
      "Severity_Level">>

NoTable == [cols |-> {}, dtype |-> [col \in {} |-> "object"], rows |-> <<>>]

\* pd.read_csv: an empty field is missing; a column whose fields are all
\* numeric or empty is numeric, any other column keeps its texts.
ReadCsvOp(file) ==
    LET numeric(col) ==
            /\ Len(file.rows) > 0
            /\ \A i \in 1..Len(file.rows) :
                  file.rows[i][col] = <<>> \/ IsNumberText(file.rows[i][col])
        cellOf(col, s) ==
            IF s = <<>> THEN NA
            ELSE IF numeric(col) THEN Num(NumberVal(s))
            ELSE Txt(s)
    IN  [cols  |-> file.cols,
         dtype |-> [col \in file.cols |->
                       IF numeric(col) THEN "number" ELSE "object"],
         rows  |-> [i \in 1..Len(file.rows) |->
                       [idx  |-> i - 1,
                        cell |-> [col \in file.cols |->
                                     cellOf(col, file.rows[i][col])]]]]

\* The positions of the rows of t.
RowsOf(t) == 1..Len(t.rows)

\* The sequence s with its elements evaluated: TLC keeps [i \in S |-> e]
\* unevaluated, and evaluates e again at every application.
Evaluated(s) == SubSeq(s, 1, Len(s))

\* df[col] = vals: every cell of one column replaced, dtype set.
SetColumn(t, col, vals, dt) ==
    [cols  |-> t.cols,
     dtype |-> [t.dtype EXCEPT ![col] = dt],
     rows  |-> Evaluated([i \in RowsOf(t) |->
                   [idx  |-> t.rows[i].idx,
                    cell |-> [t.rows[i].cell EXCEPT ![col] = vals[i]]]])]

\* The elements of s at the positions I, in order.
AtPositions(s, I) ==
    Evaluated([p \in 1..Cardinality(I) |->
        s[CHOOSE i \in I : Cardinality({j \in I : j < i}) = p - 1]])

\* df[mask]: the rows at the positions of mask, in order, index labels kept.
SelectRows(t, mask) ==
    [cols |-> t.cols, dtype |-> t.dtype, rows |-> AtPositions(t.rows, mask)]

\* df.dropna(subset=[col])
DropNa(t, col) == SelectRows(t, {i \in RowsOf(t) : ~IsNA(t.rows[i].cell[col])})

\* The range test without its upper end.
AgeInRangeNoUpperEnd(r) ==
    /\ r.cell["Age"].k = "num"
    /\ r.cell["Age"].n >= Whole(0)

\* (df["Age"] >= 0) & (df["Age"] <= 100); a comparison with NaN is False.
AgeInRange(r) ==
    /\ r.cell["Age"].k = "num"
    /\ r.cell["Age"].n >= Whole(0)
    /\ r.cell["Age"].n <= Whole(100)

\* The key drop_duplicates compares.
DupKey(r) == <<r.cell["Patient_ID"], r.cell["Visit_Date"]>>

\* keep="last".
DropDuplicatesKeepLast(t) ==
    [cols  |-> t.cols,
     dtype |-> t.dtype,
     rows  |-> AtPositions(t.rows,
                   {i \in 1..Len(t.rows) :
                       \A j \in (i + 1)..Len(t.rows) :
                           DupKey(t.rows[j]) # DupKey(t.rows[i])})]

\* df.drop_duplicates(subset=["Patient_ID", "Visit_Date"]), keep="first".
DropDuplicates(t) ==
    [cols  |-> t.cols,
     dtype |-> t.dtype,
     rows  |-> AtPositions(t.rows,
                   {i \in 1..Len(t.rows) :
                       \A j \in 1..(i - 1) : DupKey(t.rows[j]) # DupKey(t.rows[i])})]

(***************************************************************************)
(* The heap: references to table objects.  Reference 0 is None.            *)
(***************************************************************************)
Alloc(h) == CHOOSE r \in 1..(Cardinality(DOMAIN h) + 1) :
                /\ r \notin DOMAIN h
                /\ \A q \in 1..(r - 1) : q \in DOMAIN h

\* A state of a running method: the heap and the reference it holds.
\* Binding a new table allocates; assigning a column writes in place.
Bind(st, t) ==
    LET r == Alloc(st.h)
    IN  [h |-> [q \in DOMAIN st.h \cup {r} |-> IF q = r THEN t ELSE st.h[q]],
         r |-> r]

InPlace(st, t) == [h |-> [st.h EXCEPT ![st.r] = t], r |-> st.r]

\* No copy: the same object.
CopyIsAlias(st) == st

\* df.copy(): a new object with the same contents.
Copy(st) == Bind(st, st.h[st.r])

\* The heap without the objects no variable refers to.
Collect(h, roots) == [q \in DOMAIN h \cap roots |-> h[q]]

NoAnalyzer == [raw_df |-> 0, df |-> 0]

Names == {"base_analyzer", "analyzer"}

(***************************************************************************)
(* HealthAnalyzer.clean_data: the state of the method after each step.     *)
(***************************************************************************)
CoerceDate(st) ==
    IF "Visit_Date" \in st.h[st.r].cols
    THEN LET t == st.h[st.r]
         IN  InPlace(st, SetColumn(t, "Visit_Date",
                                   [i \in RowsOf(t) |->
                                       ToDatetime(t.rows[i].cell["Visit_Date"])],
                                   "datetime"))
    ELSE st

RECURSIVE CoerceNumeric(_, _)
CoerceNumeric(st, i) ==
    IF i > Len(numeric_cols) THEN st
    ELSE IF numeric_cols[i] \in st.h[st.r].cols
    THEN CoerceNumeric(
             LET t == st.h[st.r]
             IN  InPlace(st, SetColumn(t, numeric_cols[i],
                                       [j \in RowsOf(t) |->
                                           ToNumeric(t.rows[j].cell[numeric_cols[i]])],
                                       "number")),
             i + 1)
    ELSE CoerceNumeric(st, i + 1)

DropImpossibleAges(st) ==
    IF "Age" \in st.h[st.r].cols
    THEN LET t == st.h[st.r]
         IN  Bind(st, SelectRows(t, {i \in RowsOf(t) : AgeInRange(t.rows[i])}))
    ELSE st

DropMissing(st, col) ==
    IF col \in st.h[st.r].cols THEN Bind(st, DropNa(st.h[st.r], col)) ELSE st

DropMissingCritical(st) == DropMissing(DropMissing(st, "Diagnosis"), "Visit_Date")

\* drop_duplicates returns a copy of an empty frame before it looks at the
\* subset; otherwise a subset column that is absent raises KeyError.
DedupRaises(t) ==
    /\ Len(t.rows) > 0
    /\ ~({"Patient_ID", "Visit_Date"} \subseteq t.cols)

\* The whole method: [h, r] after it, and whether it raised.
clean_data(st) ==
    LET s4 == DropMissingCritical(DropImpossibleAges(CoerceNumeric(CoerceDate(st), 1)))
        t4 == s4.h[s4.r]
    IN  IF DedupRaises(t4)
        THEN [h |-> s4.h, r |-> s4.r, kind |-> "KeyError"]
        ELSE LET s5 == Bind(s4, IF Len(t4.rows) = 0 THEN t4 ELSE DropDuplicates(t4))
             IN  [h |-> s5.h, r |-> s5.r, kind |-> "table"]

(***************************************************************************)
(* The filter step of app.py.  A control that is not shown is None.        *)
(***************************************************************************)
NoRange == [none |-> TRUE, lo |-> 0, hi |-> 0]

NoSelection == [none |-> TRUE, sel |-> {}]

Present(t, col) ==
    IF col \in t.cols
    THEN {t.rows[i].cell[col] : i \in {j \in 1..Len(t.rows) : ~IsNA(t.rows[j].cell[col])}}
    ELSE {}

Least(S) == CHOOSE x \in S : \A y \in S : x <= y

Greatest(S) == CHOOSE x \in S : \A y \in S : x >= y

\* The slider exists when some age is present; its ends are int(min), int(max).
HasSlider(t) == Present(t, "Age") # {}

min_age(t) == PyInt(Least({c.n : c \in Present(t, "Age")}))

max_age(t) == PyInt(Greatest({c.n : c \in Present(t, "Age")}))

\* Every value the age slider can return.
AgeRanges(t) ==
    IF HasSlider(t)
    THEN {[none |-> FALSE, lo |-> p[1], hi |-> p[2]] :
             p \in {q \in (min_age(t)..max_age(t)) \X (min_age(t)..max_age(t)) :
                       q[1] <= q[2]}}
    ELSE {NoRange}

\* Every value a multiselect over the present values of col can return.
Selections(t, col) ==
    IF col \in t.cols
    THEN {[none |-> FALSE, sel |-> S] : S \in SUBSET Present(t, col)}
    ELSE {NoSelection}

DefaultRange(t) ==
    IF HasSlider(t) THEN [none |-> FALSE, lo |-> min_age(t), hi |-> max_age(t)]
    ELSE NoRange

DefaultSelection(t, col) ==
    IF col \in t.cols THEN [none |-> FALSE, sel |-> Present(t, col)] ELSE NoSelection

FilterAge(t, ar) ==
    IF ar.none THEN t
    ELSE SelectRows(t, {i \in RowsOf(t) :
                           /\ t.rows[i].cell["Age"].k = "num"
                           /\ t.rows[i].cell["Age"].n >= Whole(ar.lo)
                           /\ t.rows[i].cell["Age"].n <= Whole(ar.hi)})

\* The guard of an isin filter: the control is shown and something is selected.
Selected(sl) == ~sl.none /\ sl.sel # {}

FilterIsin(t, col, sl) ==
    IF Selected(sl)
    THEN SelectRows(t, {i \in RowsOf(t) : t.rows[i].cell[col] \in sl.sel})
    ELSE t

\* Every filter applied to the cleaned table, the last one applied winning.
ApplyFiltersToCleanTable(t, ar, sg, sd) ==
    IF Selected(sd) THEN FilterIsin(t, "Diagnosis", sd)
    ELSE IF Selected(sg) THEN FilterIsin(t, "Gender", sg)
    ELSE FilterAge(t, ar)


ApplyFiltersOp(t, ar, sg, sd) ==
    FilterIsin(FilterIsin(FilterAge(t, ar), "Gender", sg), "Diagnosis", sd)

(***************************************************************************)
(* The aggregators.  A result is None, a raised exception or a series of   *)
(* items; an item's value is val, or val.n / den for a mean (den = 0 and a *)
(* missing val for the mean of no values).                                 *)
(***************************************************************************)
None == [kind |-> "None", items |-> <<>>]

Raise == [kind |-> "Raise", items |-> <<>>]

Series(items) == [kind |-> "Series", items |-> items]

\* The characters of the model's texts, in code point order.
CharOrder ==
    <<"-", ".", "/", "0", "1", "2", "3", "4", "5", "6", "7", "8", "9",
      "F", "M", "X", "Y", "Z", "a", "b", "c">>

CharRank(c) == CHOOSE i \in 1..Len(CharOrder) : CharOrder[i] = c

RECURSIVE LexLess(_, _)
LexLess(a, b) ==
    IF Len(b) = 0 THEN FALSE
    ELSE IF Len(a) = 0 THEN TRUE
    ELSE IF a[1] = b[1] THEN LexLess(Tail(a), Tail(b))
    ELSE CharRank(a[1]) < CharRank(b[1])

CellLess(a, b) == IF a.k = "text" THEN LexLess(a.s, b.s) ELSE a.n < b.n

\* A stable sort.  less holds the pairs <<j, i>> of positions with items[j]
\* less than items[i]; j comes before i when it is less, or equal and earlier.
StableSort(items, less) ==
    LET n == Len(items)
        before(j, i) ==
            \/ <<j, i>> \in less
            \/ <<i, j>> \notin less /\ j < i
        rank(i) == 1 + Cardinality({j \in 1..n : j # i /\ before(j, i)})
    IN  Evaluated([p \in 1..n |-> items[CHOOSE i \in 1..n : rank(i) = p]])

Pairs(items) == (1..Len(items)) \X (1..Len(items))

\* Series.sort_values(ascending=False): greater first, missing last.
ValueGreater(a, b) ==
    /\ a.den > 0
    /\ b.den = 0 \/ a.val.n * b.den > b.val.n * a.den

SortValuesDescending(items) ==
    StableSort(items, {p \in Pairs(items) : ValueGreater(items[p[1]], items[p[2]])})

\* The cells of a column in row order.
ColumnOf(t, col) == [i \in 1..Len(t.rows) |-> t.rows[i].cell[col]]

\* The distinct present cells of s in order of first appearance.
Distinct(s) ==
    AtPositions(s, {i \in 1..Len(s) :
                      ~IsNA(s[i]) /\ \A j \in 1..(i - 1) : s[j] # s[i]})

CountOf(s, c) == Cardinality({i \in 1..Len(s) : s[i] = c})

\* Series.value_counts(): the present values by falling count.
value_counts(s) ==
    LET keys == Distinct(s)
    IN  SortValuesDescending(
            [p \in 1..Len(keys) |->
                [key |-> keys[p], val |-> Num(Whole(CountOf(s, keys[p]))), den |-> 1]])

\* Series.dropna(): the present values under their index labels.
dropna_series(t, col) ==
    LET kept == AtPositions(t.rows, {i \in 1..Len(t.rows) : ~IsNA(t.rows[i].cell[col])})
    IN  [p \in 1..Len(kept) |->
            [key |-> Idx(kept[p].idx), val |-> kept[p].cell[col], den |-> 1]]

\* sort_values(ascending=True).
get_diagnosis_counts_ascending(t) ==
    IF "Diagnosis" \notin t.cols THEN None
    ELSE LET items == value_counts(ColumnOf(t, "Diagnosis"))
         IN  Series(StableSort(items,
                 {p \in Pairs(items) : ValueGreater(items[p[2]], items[p[1]])}))


get_diagnosis_counts(t) ==
    IF "Diagnosis" \notin t.cols THEN None
    ELSE Series(SortValuesDescending(value_counts(ColumnOf(t, "Diagnosis"))))

\* temp["Month"]: the month column of the rows with a date.
MonthColumn(t) ==
    LET temp == DropNa(t, "Visit_Date")
    IN  [i \in 1..Len(temp.rows) |-> Ts(MonthStart(temp.rows[i].cell["Visit_Date"].n))]

\* groupby(...).size(): one item per key, keys ascending.
GroupSizes(s) ==
    LET keys  == Distinct(s)
        items == [p \in 1..Len(keys) |->
                     [key |-> keys[p], val |-> Num(Whole(CountOf(s, keys[p]))), den |-> 1]]
    IN  StableSort(items, {p \in Pairs(items) : CellLess(items[p[1]].key, items[p[2]].key)})

\* The .dt accessor exists only on a datetime column.
get_monthly_visits(t) ==
    IF "Visit_Date" \notin t.cols THEN None
    ELSE IF t.dtype["Visit_Date"] # "datetime" THEN Raise
    ELSE Series(GroupSizes(MonthColumn(t)))

get_age_series(t) ==
    IF "Age" \notin t.cols THEN None ELSE Series(dropna_series(t, "Age"))

get_gender_counts(t) ==
    IF "Gender" \notin t.cols THEN None
    ELSE Series(value_counts(ColumnOf(t, "Gender")))

RECURSIVE SumOf(_)
SumOf(s) == IF Len(s) = 0 THEN 0 ELSE s[1].n + SumOf(Tail(s))

\* groupby sorts its keys ascending.
SortedKeys(keys) == StableSort(keys, {p \in Pairs(keys) : CellLess(keys[p[1]], keys[p[2]])})

\* A mean that counts a missing value as zero.
GroupMeansCountingMissing(t, col) ==
    LET keys == SortedKeys(Distinct(ColumnOf(t, "Diagnosis")))
        vals(key) ==
            LET rows == SelectSeq(t.rows, LAMBDA r : r.cell["Diagnosis"] = key)
            IN  [i \in 1..Len(rows) |-> rows[i].cell[col]]
    IN  [p \in 1..Len(keys) |->
            [key |-> keys[p],
             val |-> Num(SumOf(vals(keys[p]))),
             den |-> Len(vals(keys[p]))]]

\* groupby("Diagnosis")[col].mean(): one item per present diagnosis, keys
\* ascending; the mean skips missing values and is missing when none is left.
GroupMeans(t, col) ==
    LET keys == SortedKeys(Distinct(ColumnOf(t, "Diagnosis")))
        vals(key) ==
            LET rows == SelectSeq(t.rows,
                            LAMBDA r : r.cell["Diagnosis"] = key /\ ~IsNA(r.cell[col]))
            IN  [i \in 1..Len(rows) |-> rows[i].cell[col]]
    IN  [p \in 1..Len(keys) |->
            [key |-> keys[p],
             val |-> IF Len(vals(keys[p])) = 0 THEN NA ELSE Num(SumOf(vals(keys[p]))),
             den |-> Len(vals(keys[p]))]]

\* What the call can do: the mean of an object column raises; over no rows
\* at all the library's versions differ (an empty series, or the error).
duration_outcomes(t) ==
    IF "Diagnosis" \notin t.cols \/ "Treatment_Duration_Weeks" \notin t.cols
    THEN {None}
    ELSE IF t.dtype["Treatment_Duration_Weeks"] = "object"
    THEN (IF Len(t.rows) = 0 THEN {Raise, Series(<<>>)} ELSE {Raise})
    ELSE {Series(SortValuesDescending(GroupMeans(t, "Treatment_Duration_Weeks")))}

get_satisfaction_series(t) ==
    IF "Satisfaction_Score" \notin t.cols THEN None
    ELSE Series(dropna_series(t, "Satisfaction_Score"))

(***************************************************************************)
(* HealthAnalyzer.__init__: the table passed in is kept, and copied.       *)
(***************************************************************************)
HealthAnalyzer(st) ==
    LET c == Copy(st) IN [h |-> c.h, raw_df |-> st.r, df |-> c.r]

(***************************************************************************)
(* The uploaded files.  A file has columns and rows of fields.             *)
(***************************************************************************)
Jan05 == <<"2", "0", "2", "4", "-", "0", "1", "-", "0", "5">>

Jan10 == <<"2", "0", "2", "4", "-", "0", "1", "-", "1", "0">>

Jan25 == <<"2", "0", "2", "4", "-", "0", "1", "-", "2", "5">>

Feb30 == <<"2", "0", "2", "4", "-", "0", "2", "-", "3", "0">>

Dec31 == <<"2", "0", "2", "3", "-", "1", "2", "-", "3", "1">>

Empty == <<>>

ColumnOrder ==
    <<"Patient_ID", "Visit_Date", "Diagnosis", "Age", "Gender",
      "Treatment_Duration_Weeks", "Satisfaction_Score">>

\* The row over cols whose fields, in ColumnOrder, are f.
Row(cols, f) ==
    [col \in cols |-> f[CHOOSE i \in 1..Len(ColumnOrder) : ColumnOrder[i] = col]]

\* The files over the columns cols whose rows are drawn from rows.
Files(cols, rows) ==
    {[cols |-> cols, rows |-> sq] : sq \in UNION {[1..n -> rows] : n \in 0..MaxRows}}

\* ... and the files that lack some of those columns.
Lacking(cols, fields) ==
    UNION {Files(some, {Row(some, f) : f \in fields}) : some \in (SUBSET cols) \ {{}, cols}}

CleanCols == {"Patient_ID", "Visit_Date", "Diagnosis", "Age"}

\* Visits that differ from a valid first visit in one respect each.
CleanFields ==
    {<<<<"1">>, Jan05, <<"X">>, <<"2", "5">>>>,
     <<<<"1">>, Jan05, <<"Y">>, <<"2", "5">>>>,
     <<<<"1">>, Jan05, <<"X">>, <<"1", "5", "0">>>>,
     <<<<"2">>, Jan05, Empty, <<"2", "5">>>>,
     <<<<"1">>, Feb30, <<"X">>, <<"2", "5">>>>,
     <<<<"2">>, Jan05, <<"X">>, <<"a", "b", "c">>>>}

PartialFields ==
    {<<<<"1">>, Jan05, <<"X">>, <<"2", "5">>>>,
     <<<<"1">>, Jan05, Empty, <<"-", "1">>>>}

CleanFiles ==
    Files(CleanCols, {Row(CleanCols, f) : f \in CleanFields})
        \cup Lacking(CleanCols, PartialFields)

AggCols ==
    {"Patient_ID", "Visit_Date", "Diagnosis", "Treatment_Duration_Weeks",
     "Satisfaction_Score"}

\* Visits in two months, with durations 2, 4, 6 under X and an unparsable
\* and a fractional one under Y.
AggFields ==
    {<<<<"1">>, Jan10, <<"X">>, Empty, Empty, <<"2">>, <<"5">>>>,
     <<<<"2">>, Jan25, <<"X">>, Empty, Empty, <<"4">>, <<"4">>>>,
     <<<<"3">>, Dec31, <<"X">>, Empty, Empty, <<"6">>, Empty>>,
     <<<<"4">>, Jan10, <<"Y">>, Empty, Empty, <<"a", "b", "c">>, <<"3">>>>,
     <<<<"5">>, Dec31, <<"Y">>, Empty, Empty, <<"4", ".", "5">>, <<"5">>>>}

AggPartialFields ==
    {<<<<"1">>, Jan10, <<"X">>, Empty, Empty, <<"2">>, <<"5">>>>,
     <<<<"2">>, Dec31, <<"Y">>, Empty, Empty, Empty, Empty>>}

AggFiles ==
    Files(AggCols, {Row(AggCols, f) : f \in AggFields})
        \cup Lacking(AggCols, AggPartialFields)

AppCols == {"Patient_ID", "Visit_Date", "Diagnosis", "Age", "Gender"}

\* Patients of two diagnoses, with whole and fractional ages and with and
\* without a gender.
AppFields ==
    {<<<<"1">>, Jan05, <<"X">>, <<"2", "5">>, <<"F">>>>,
     <<<<"2">>, Jan05, <<"Y">>, <<"2", "6", ".", "5">>, Empty>>,
     <<<<"3">>, Jan10, <<"X">>, <<"2", "6">>, <<"M">>>>,
     <<<<"4">>, Jan10, <<"Y">>, <<"2", "4">>, <<"F">>>>}

AppPartialFields ==
    {<<<<"1">>, Jan05, <<"X">>, <<"2", "5">>, <<"F">>>>,
     <<<<"2">>, Jan10, <<"Y">>, <<"2", "6">>, Empty>>}

AppFiles ==
    Files(AppCols, {Row(AppCols, f) : f \in AppFields})
        \cup Lacking(AppCols, AppPartialFields)

(***************************************************************************)
(* The state machine.                                                      *)
(***************************************************************************)
NoReturn == [kind |-> "none", t |-> NoTable]

NoResult == [fn |-> "", who |-> "", out |-> None]

Get(a) == IF a = "base_analyzer" THEN base_analyzer ELSE analyzer

\* One analyzer is in use at a time: base_analyzer until analyzer is built.
Usable(a) ==
    /\ Get(a) # NoAnalyzer
    /\ a = "base_analyzer" => analyzer = NoAnalyzer

Roots(d, b, c, f, a) == {d, b.raw_df, b.df, c, f, a.raw_df, a.df}

InitWith(files) ==
    /\ csv \in files
    /\ heap = [q \in {} |-> NoTable]
    /\ df = 0
    /\ base_analyzer = NoAnalyzer
    /\ clean_df = 0
    /\ age_range = NoRange
    /\ selected_genders = NoSelection
    /\ selected_diagnoses = NoSelection
    /\ filtered_df = 0
    /\ analyzer = NoAnalyzer
    /\ ret = [a \in Names |-> "none"]
    /\ prev_ret = [a \in Names |-> NoReturn]
    /\ ncalls = [a \in Names |-> 0]
    /\ result = NoResult
    /\ passed = [a \in Names |-> NoTable]

\* df = pd.read_csv(uploaded_file)
ReadCsv ==
    /\ df = 0
    /\ df' = 1
    /\ heap' = [q \in {1} |-> ReadCsvOp(csv)]
    /\ UNCHANGED <<csv, base_analyzer, clean_df, age_range, selected_genders,
                   selected_diagnoses, filtered_df, analyzer, ret, prev_ret,
                   ncalls, result, passed>>

\* base_analyzer = HealthAnalyzer(df)
NewBaseAnalyzer ==
    /\ df # 0
    /\ base_analyzer = NoAnalyzer
    /\ LET o == HealthAnalyzer([h |-> heap, r |-> df])
       IN  /\ base_analyzer' = [raw_df |-> o.raw_df, df |-> o.df]
           /\ heap' = o.h
    /\ passed' = [passed EXCEPT !["base_analyzer"] = heap[df]]
    /\ UNCHANGED <<csv, df, clean_df, age_range, selected_genders,
                   selected_diagnoses, filtered_df, analyzer, ret, prev_ret,
                   ncalls, result>>

\* HealthAnalyzer(t) for the table t that base_analyzer.clean_data() returned.
NewAnalyzerFromClean ==
    /\ ret["base_analyzer"] = "table"
    /\ analyzer = NoAnalyzer
    /\ LET o  == HealthAnalyzer([h |-> heap, r |-> base_analyzer.df])
           an == [raw_df |-> o.raw_df, df |-> o.df]
       IN  /\ analyzer' = an
           /\ heap' = Collect(o.h, Roots(df, base_analyzer, clean_df, filtered_df, an))
    /\ passed' = [passed EXCEPT !["analyzer"] = heap[base_analyzer.df]]
    /\ result' = NoResult
    /\ UNCHANGED <<csv, df, base_analyzer, clean_df, age_range, selected_genders,
                   selected_diagnoses, filtered_df, ret, prev_ret, ncalls>>

\* a.clean_data().  ncalls counts the calls: none, one, two or more.
CleanData(a) ==
    /\ Usable(a)
    /\ LET o  == clean_data([h |-> heap, r |-> Get(a).df])
           b  == IF a = "base_analyzer" THEN [base_analyzer EXCEPT !.df = o.r]
                 ELSE base_analyzer
           an == IF a = "analyzer" THEN [analyzer EXCEPT !.df = o.r] ELSE analyzer
           c  == IF a = "base_analyzer" /\ clean_df = 0 /\ o.kind = "table"
                 THEN o.r ELSE clean_df
       IN  /\ base_analyzer' = b
           /\ analyzer' = an
           /\ clean_df' = c
           /\ heap' = Collect(o.h, Roots(df, b, c, filtered_df, an))
           /\ ret' = [ret EXCEPT ![a] = o.kind]
    /\ prev_ret' = [prev_ret EXCEPT ![a] = [kind |-> ret[a], t |-> heap[Get(a).df]]]
    /\ ncalls' = [ncalls EXCEPT ![a] = IF @ = 0 THEN 1 ELSE 2]
    /\ result' = NoResult
    /\ UNCHANGED <<csv, df, age_range, selected_genders, selected_diagnoses,
                   filtered_df, passed>>

\* clean_df = base_analyzer.clean_data(), once in a run of the script.
CleanBase == ncalls["base_analyzer"] = 0 /\ CleanData("base_analyzer")

\* The controls, the filter step and analyzer = HealthAnalyzer(filtered_df),
\* once in a run of the script: an interaction is a new run, from the start,
\* with the controls' new values.
ApplyFilters ==
    /\ clean_df # 0
    /\ analyzer = NoAnalyzer
    /\ \E ar \in AgeRanges(heap[clean_df]),
          sg \in Selections(heap[clean_df], "Gender"),
          sd \in Selections(heap[clean_df], "Diagnosis") :
          LET s1 == Copy([h |-> heap, r |-> clean_df])
              s2 == IF ~ar.none \/ Selected(sg) \/ Selected(sd)
                    THEN Bind(s1, ApplyFiltersOp(s1.h[s1.r], ar, sg, sd))
                    ELSE s1
              o  == HealthAnalyzer(s2)
              an == [raw_df |-> o.raw_df, df |-> o.df]
          IN  /\ age_range' = ar
              /\ selected_genders' = sg
              /\ selected_diagnoses' = sd
              /\ filtered_df' = s2.r
              /\ analyzer' = an
              /\ heap' = Collect(o.h, Roots(df, base_analyzer, clean_df, s2.r, an))
              /\ passed' = [passed EXCEPT !["analyzer"] = s2.h[s2.r]]
    /\ result' = NoResult
    /\ UNCHANGED <<csv, df, base_analyzer, clean_df, ret, prev_ret, ncalls>>

Returns(fn, a, out) ==
    /\ Usable(a)
    /\ result' = [fn |-> fn, who |-> a, out |-> out]
    /\ UNCHANGED <<csv, heap, df, base_analyzer, clean_df, age_range,
                   selected_genders, selected_diagnoses, filtered_df, analyzer,
                   ret, prev_ret, ncalls, passed>>

GetDiagnosisCounts(a) ==
    /\ Usable(a)
    /\ Returns("get_diagnosis_counts", a, get_diagnosis_counts(heap[Get(a).df]))

GetMonthlyVisits(a) ==
    /\ Usable(a)
    /\ Returns("get_monthly_visits", a, get_monthly_visits(heap[Get(a).df]))

GetAgeSeries(a) ==
    /\ Usable(a)
    /\ Returns("get_age_series", a, get_age_series(heap[Get(a).df]))

GetGenderCounts(a) ==
    /\ Usable(a)
    /\ Returns("get_gender_counts", a, get_gender_counts(heap[Get(a).df]))

GetDurationByDiagnosis(a) ==
    /\ Usable(a)
    /\ \E out \in duration_outcomes(heap[Get(a).df]) :
          Returns("get_duration_by_diagnosis", a, out)

GetSatisfactionSeries(a) ==
    /\ Usable(a)
    /\ Returns("get_satisfaction_series", a, get_satisfaction_series(heap[Get(a).df]))

\* HealthAnalyzer used as a class: any method, any number of times.
NextLib ==
    \/ ReadCsv
    \/ NewBaseAnalyzer
    \/ NewAnalyzerFromClean
    \/ \E a \in Names : CleanData(a)
    \/ GetDiagnosisCounts("base_analyzer")
    \/ GetMonthlyVisits("base_analyzer")
    \/ GetAgeSeries("base_analyzer")
    \/ GetGenderCounts("base_analyzer")
    \/ GetDurationByDiagnosis("base_analyzer")
    \/ GetSatisfactionSeries("base_analyzer")

\* The script of app.py.
NextApp ==
    \/ ReadCsv
    \/ NewBaseAnalyzer
    \/ CleanBase
    \/ ApplyFilters
    \/ GetDiagnosisCounts("analyzer")
    \/ GetMonthlyVisits("analyzer")
    \/ GetAgeSeries("analyzer")
    \/ GetGenderCounts("analyzer")
    \/ GetDurationByDiagnosis("analyzer")
    \/ GetSatisfactionSeries("analyzer")

InitClean == InitWith(CleanFiles)

SpecClean == InitClean /\ [][NextLib]_vars

InitAgg == InitWith(AggFiles)

SpecAgg == InitAgg /\ [][NextLib]_vars

InitApp == InitWith(AppFiles)

SpecApp == InitApp /\ [][NextApp]_vars

(***************************************************************************)
(* The claims.                                                             *)
(***************************************************************************)
\* The analyzer's working table, self.df.
Table(a) == heap[Get(a).df]

\* The last clean_data call of a returned, and Table(a) is what it returned.
Cleaned(a) == Get(a) # NoAnalyzer /\ ret[a] = "table"

\* A row of the table passed in, with its columns coerced.
CoercedRow(cols, r) ==
    [idx  |-> r.idx,
     cell |-> [col \in cols |->
                  IF col = "Visit_Date" THEN ToDatetime(r.cell[col])
                  ELSE IF \E i \in 1..Len(numeric_cols) : numeric_cols[i] = col
                  THEN ToNumeric(r.cell[col])
                  ELSE r.cell[col]]]

CoercedInput(a) ==
    [i \in 1..Len(passed[a].rows) |-> CoercedRow(passed[a].cols, passed[a].rows[i])]

\* A coerced row passes the age test and has its diagnosis and its date.
Survives(cols, r) ==
    /\ "Age" \in cols => r.cell["Age"].k = "num" /\ r.cell["Age"].n \in 0..1000
    /\ "Diagnosis" \in cols => r.cell["Diagnosis"].k # "na"
    /\ "Visit_Date" \in cols => r.cell["Visit_Date"].k # "na"

\* C1: clean_data run again on the table it returned returns the same table,
\* on the same analyzer (the return equals the previous return) and on the
\* analyzer built from the returned table (the return equals the table
\* passed in).
IdempotentClean ==
    /\ \A a \in Names :
          prev_ret[a].kind = "table" =>
              ret[a] = "table" /\ Table(a) = prev_ret[a].t
    /\ (analyzer # NoAnalyzer /\ ncalls["analyzer"] >= 1) =>
          ret["analyzer"] = "table" /\ Table("analyzer") = passed["analyzer"]

\* clean_data has run twice on base_analyzer and once on the analyzer built
\* from its output, and the first run had dropped rows and kept some.
IdempotentCleanWitness ==
    /\ ncalls["base_analyzer"] = 2
    /\ analyzer # NoAnalyzer
    /\ ncalls["analyzer"] >= 1
    /\ ret["analyzer"] = "table"
    /\ Len(Table("analyzer").rows) > 0
    /\ Len(Table("analyzer").rows) < Len(passed["base_analyzer"].rows)

\* C2: in the table clean_data returns no two rows share (Patient_ID,
\* Visit_Date); each row is the earliest row of the input, among those that
\* pass the age test and have a diagnosis and a date, with its pair; and
\* every such pair of the input is in the output.
DedupKeepsFirst ==
    \A a \in Names :
        (Cleaned(a) /\ {"Patient_ID", "Visit_Date"} \subseteq Table(a).cols) =>
            LET out  == Table(a).rows
                cols == Table(a).cols
                inp  == CoercedInput(a)
                live == {i \in 1..Len(inp) : Survives(cols, inp[i])}
            IN  /\ \A i, j \in 1..Len(out) :
                      i # j => DupKey(out[i]) # DupKey(out[j])
                /\ \A i, j \in 1..Len(out) : i < j => out[i].idx < out[j].idx
                /\ \A i \in 1..Len(out) :
                      \E k \in live :
                          /\ inp[k] = out[i]
                          /\ \A m \in live :
                                DupKey(inp[m]) = DupKey(inp[k]) => inp[k].idx <= inp[m].idx
                /\ \A k \in live :
                      \E i \in 1..Len(out) : DupKey(out[i]) = DupKey(inp[k])

\* Three rows of one pair: the first fails the age test, the second is kept
\* and the third, with another diagnosis, is dropped as its duplicate.
DedupKeepsFirstWitness ==
    /\ Cleaned("base_analyzer")
    /\ passed["base_analyzer"].cols = CleanCols
    /\ Len(passed["base_analyzer"].rows) = 3
    /\ LET inp == CoercedInput("base_analyzer")
           out == Table("base_analyzer").rows
       IN  /\ DupKey(inp[1]) = DupKey(inp[2])
           /\ DupKey(inp[2]) = DupKey(inp[3])
           /\ ~Survives(Table("base_analyzer").cols, inp[1])
           /\ inp[2].cell["Diagnosis"] # inp[3].cell["Diagnosis"]
           /\ out = <<inp[2]>>

\* C3: every row of the table clean_data returns has an age in [0, 100] when
\* there is an Age column, a diagnosis when there is a Diagnosis column and
\* a date when there is a Visit_Date column.
CleanRowsValid ==
    \A a \in Names :
        Cleaned(a) =>
            \A i \in 1..Len(Table(a).rows) :
                LET r == Table(a).rows[i]
                IN  /\ "Age" \in Table(a).cols =>
                          /\ r.cell["Age"].k = "num"
                          /\ r.cell["Age"].n >= 0
                          /\ r.cell["Age"].n <= 1000
                    /\ "Diagnosis" \in Table(a).cols => r.cell["Diagnosis"].k # "na"
                    /\ "Visit_Date" \in Table(a).cols => r.cell["Visit_Date"].k = "date"

\* The input had an age of 150, an unparsable age or date or a missing
\* diagnosis in each of its rows but one, and that one row is what is left.
CleanRowsValidWitness ==
    /\ Cleaned("base_analyzer")
    /\ Table("base_analyzer").cols = CleanCols
    /\ Len(Table("base_analyzer").rows) = 1
    /\ LET inp == CoercedInput("base_analyzer")
       IN  /\ Len(inp) = 3
           /\ \E i \in 1..3 : inp[i].cell["Age"].k = "num" /\ inp[i].cell["Age"].n = 1500
           /\ \E i \in 1..3 : \/ inp[i].cell["Age"].k = "na"
                              \/ inp[i].cell["Diagnosis"].k = "na"
                              \/ inp[i].cell["Visit_Date"].k = "na"

\* C4: clean_data never raises, whatever columns the table lacks.
CleanNeverRaises == \A a \in Names : ret[a] # "KeyError"

\* The filtered table app.py passes to analyzer.
Filtered == heap[filtered_df]

InAgeRange(r) ==
    /\ r.cell["Age"].k = "num"
    /\ age_range.lo * 10 <= r.cell["Age"].n
    /\ r.cell["Age"].n <= age_range.hi * 10

\* C5 as stated: the filtered rows are the cleaned rows that satisfy the
\* three predicates at once, an empty selection included.
FilterIsConjunction ==
    (analyzer # NoAnalyzer /\ ~age_range.none /\ ~selected_genders.none
        /\ ~selected_diagnoses.none) =>
        Filtered.rows =
            SelectSeq(heap[clean_df].rows,
                      LAMBDA r : /\ InAgeRange(r)
                                 /\ r.cell["Gender"] \in selected_genders.sel
                                 /\ r.cell["Diagnosis"] \in selected_diagnoses.sel)

\* C5 amended: a control contributes its predicate when it is shown and, for
\* the two multiselects, when something is selected; the filtered table is
\* the cleaned rows that satisfy the contributed predicates at once.
FilterIsConjunctionOfActiveControls ==
    analyzer # NoAnalyzer =>
        /\ Filtered.cols = heap[clean_df].cols
        /\ Filtered.rows =
              SelectSeq(heap[clean_df].rows,
                  LAMBDA r :
                      /\ age_range.none \/ InAgeRange(r)
                      /\ \/ selected_genders.none
                         \/ selected_genders.sel = {}
                         \/ r.cell["Gender"] \in selected_genders.sel
                      /\ \/ selected_diagnoses.none
                         \/ selected_diagnoses.sel = {}
                         \/ r.cell["Diagnosis"] \in selected_diagnoses.sel)

\* All three controls are shown and narrowed, each of the three predicates
\* excludes a row of its own and a row is left.
FilterWitness ==
    /\ analyzer # NoAnalyzer
    /\ ~age_range.none
    /\ selected_genders.sel # {}
    /\ selected_diagnoses.sel # {}
    /\ Len(Filtered.rows) > 0
    /\ LET rows == heap[clean_df].rows
       IN  /\ \E i \in 1..Len(rows) :
                 /\ ~InAgeRange(rows[i])
                 /\ rows[i].cell["Diagnosis"] \in selected_diagnoses.sel
           /\ \E i \in 1..Len(rows) :
                 /\ InAgeRange(rows[i])
                 /\ rows[i].cell["Gender"] \notin selected_genders.sel
           /\ \E i \in 1..Len(rows) :
                 /\ InAgeRange(rows[i])
                 /\ rows[i].cell["Diagnosis"] \notin selected_diagnoses.sel

\* C10: with the three controls at their defaults the filtered table is the
\* cleaned table.
DefaultsKeepEverything ==
    (/\ analyzer # NoAnalyzer
     /\ age_range = DefaultRange(heap[clean_df])
     /\ selected_genders = DefaultSelection(heap[clean_df], "Gender")
     /\ selected_diagnoses = DefaultSelection(heap[clean_df], "Diagnosis")) =>
        Filtered = heap[clean_df]

\* The rows of t with a date.
Dated(t) == {i \in 1..Len(t.rows) : t.rows[i].cell["Visit_Date"].k = "date"}

RECURSIVE TotalOf(_)
TotalOf(items) == IF Len(items) = 0 THEN 0 ELSE items[1].val.n + TotalOf(Tail(items))

\* C6: get_monthly_visits has one bucket per calendar month with a visit,
\* keyed by the first day of the month, months ascending; a bucket counts
\* the rows dated in its month, every dated row falls in exactly one bucket
\* and the counts add up to the number of dated rows.
MonthlyPartition ==
    (result.fn = "get_monthly_visits" /\ result.out.kind = "Series") =>
        LET t     == Table(result.who)
            items == result.out.items
        IN  /\ \A p \in 1..Len(items) :
                  /\ items[p].key.k = "date"
                  /\ items[p].key.n % 100 = 1
                  /\ items[p].val.n =
                        10 * Cardinality({i \in Dated(t) :
                            t.rows[i].cell["Visit_Date"].n \div 100
                                = items[p].key.n \div 100})
                  /\ items[p].val.n > 0
            /\ \A p, q \in 1..Len(items) : p < q => items[p].key.n < items[q].key.n
            /\ \A i \in Dated(t) :
                  Cardinality({p \in 1..Len(items) :
                      items[p].key.n \div 100
                          = t.rows[i].cell["Visit_Date"].n \div 100}) = 1
            /\ TotalOf(items) = 10 * Cardinality(Dated(t))

\* Visits on 2024-01-10, 2024-01-25 and 2023-12-31: a 2023-12 bucket of one
\* and then a 2024-01 bucket of two.
MonthlyPartitionWitness ==
    /\ result.fn = "get_monthly_visits"
    /\ result.out.kind = "Series"
    /\ Len(result.out.items) = 2
    /\ result.out.items[1].key = Ts(20231201)
    /\ result.out.items[2].key = Ts(20240101)
    /\ result.out.items[2].val = Num(20)
    /\ {Table(result.who).rows[i].cell["Visit_Date"].n : i \in Dated(Table(result.who))}
          = {20231231, 20240110, 20240125}

\* The rows of t under diagnosis key with a duration.
WithDuration(t, key) ==
    {i \in 1..Len(t.rows) :
        /\ t.rows[i].cell["Diagnosis"] = key
        /\ t.rows[i].cell["Treatment_Duration_Weeks"].k = "num"}

RECURSIVE DurationSum(_, _)
DurationSum(t, I) ==
    IF I = {} THEN 0
    ELSE LET i == CHOOSE x \in I : TRUE
         IN  t.rows[i].cell["Treatment_Duration_Weeks"].n + DurationSum(t, I \ {i})

Diagnoses(t) == Present(t, "Diagnosis")

KeysOf(items) == {items[p].key : p \in 1..Len(items)}

\* An item's mean is the mean of the rows I: sum / count, in tenths.
IsMeanOf(item, t, I) ==
    /\ item.den = Cardinality(I)
    /\ item.val = Num(DurationSum(t, I))

\* C7 as stated: the entries are exactly the diagnoses with a duration, each
\* with the mean of its durations, means descending.
DurationOnlyWithValues ==
    (result.fn = "get_duration_by_diagnosis" /\ result.out.kind = "Series") =>
        LET t     == Table(result.who)
            items == result.out.items
        IN  /\ KeysOf(items) = {d \in Diagnoses(t) : WithDuration(t, d) # {}}
            /\ \A p \in 1..Len(items) :
                  IsMeanOf(items[p], t, WithDuration(t, items[p].key))
            /\ \A p, q \in 1..Len(items) :
                  p < q => items[p].val.n * items[q].den >= items[q].val.n * items[p].den

\* C7 amended: there is one entry for every diagnosis of the table; a
\* diagnosis with a duration has the mean of its durations, one with none
\* has a missing mean; the entries with a mean come first, means
\* descending, and those with a missing mean last.
DurationMeans ==
    (result.fn = "get_duration_by_diagnosis" /\ result.out.kind = "Series") =>
        LET t     == Table(result.who)
            items == result.out.items
        IN  /\ KeysOf(items) = Diagnoses(t)
            /\ Len(items) = Cardinality(Diagnoses(t))
            /\ \A p \in 1..Len(items) :
                  IF WithDuration(t, items[p].key) = {}
                  THEN items[p].den = 0 /\ items[p].val = NA
                  ELSE IsMeanOf(items[p], t, WithDuration(t, items[p].key))
            /\ \A p, q \in 1..Len(items) :
                  p < q =>
                      \/ items[q].den = 0
                      \/ /\ items[p].den > 0
                         /\ items[p].val.n * items[q].den >= items[q].val.n * items[p].den

\* Durations 2 and 4 under X and none under Y: X with mean 3, then Y with a
\* missing mean.
DurationMeansWitness ==
    /\ result.fn = "get_duration_by_diagnosis"
    /\ result.out.kind = "Series"
    /\ Len(result.out.items) = 2
    /\ result.out.items[1] = [key |-> Txt(<<"X">>), val |-> Num(60), den |-> 2]
    /\ result.out.items[2] = [key |-> Txt(<<"Y">>), val |-> NA, den |-> 0]

\* C8: get_diagnosis_counts is None without a Diagnosis column; otherwise it
\* has one entry per diagnosis of the table, with the number of its rows,
\* counts never increasing; over an empty table it has no entry.
DiagnosisCounts ==
    result.fn = "get_diagnosis_counts" =>
        LET t     == Table(result.who)
            items == result.out.items
        IN  IF "Diagnosis" \notin t.cols THEN result.out = None
            ELSE /\ result.out.kind = "Series"
                 /\ KeysOf(items) = Diagnoses(t)
                 /\ Len(items) = Cardinality(Diagnoses(t))
                 /\ \A p \in 1..Len(items) :
                       items[p].val =
                           Num(10 * Cardinality({i \in 1..Len(t.rows) :
                                   t.rows[i].cell["Diagnosis"] = items[p].key}))
                 /\ \A p, q \in 1..Len(items) :
                       p < q => items[p].val.n >= items[q].val.n
                 /\ Len(t.rows) = 0 => items = <<>>

\* Two diagnoses, the first with two rows and the second with one.
DiagnosisCountsWitness ==
    /\ result.fn = "get_diagnosis_counts"
    /\ result.out.kind = "Series"
    /\ Len(result.out.items) = 2
    /\ result.out.items[1].val = Num(20)
    /\ result.out.items[2].val = Num(10)

\* C9: the table passed to HealthAnalyzer is as it was passed, whatever
\* clean_data and the aggregators have done since.
RawUnchanged ==
    \A a \in Names : Get(a) # NoAnalyzer => heap[Get(a).raw_df] = passed[a]

\* clean_data has coerced and dropped rows of the working copy, and
\* get_monthly_visits has then added its Month column to its own copy.
RawUnchangedWitness ==
    /\ Cleaned("base_analyzer")
    /\ result.fn = "get_monthly_visits"
    /\ result.who = "base_analyzer"
    /\ result.out.kind = "Series"
    /\ Len(result.out.items) > 0
    /\ Len(Table("base_analyzer").rows) < Len(passed["base_analyzer"].rows)
    /\ heap[base_analyzer.raw_df].dtype["Visit_Date"] = "object"
    /\ Table("base_analyzer").dtype["Visit_Date"] = "datetime"

====
